---- MODULE Spec2Model ----
(***************************************************************************)
(* Fixed-point conversion of a trained layer graph (scripts/nnom_utils.py) *)
(*                                                                         *)
(*   SweepSpec   : make_initial_shift_list followed by the backward        *)
(*                 reconciliation sweep of layers_output_ranges.           *)
(*   WeightsSpec : generate_weights, one step per layer and per variable.  *)
(*   ModelSpec   : generate_model: generate_weights, then the define loop, *)
(*                 the structure loop and the layer construction loop.     *)
(*   CalibSpec   : make_initial_shift_list under max_min and kld.          *)
(***************************************************************************)
EXTENDS Integers, Sequences, FiniteSets, TLC

(* ---------------------------- bounds ----------------------------------- *)
MaxNodes == 5        \* layers in a graph of SweepSpec
MaxMerge == 3        \* multi-input layers of a graph
MaxFixed == 1        \* softmax / sigmoid / tanh layers of a graph
MaxPass == 1         \* pass-through layers of a graph
MaxIntBits == 2      \* observed activations need 0..MaxIntBits integer bits
MaxLayers == 3       \* layers of a model of WeightsSpec (a chain)
MaxMant == 3         \* tensor values are m * 2^e with |m| <= MaxMant ...
MaxExp == 6          \* ... and e in {0, MaxExp}
MaxElems == 1        \* distinct values of a weight tensor
MaxCalibNodes == 4   \* layers in a graph of CalibSpec
MaxKld == 1          \* dec_bits_by_kld adds 0..MaxKld bits (the source: 0..3)

(* ------------------------ program constants ---------------------------- *)
DataBits == 7        \* dec_bits = 7 - int_bits
FloorIntBits == -33  \* ceil(log2(1e-10)): get_int_bits of an all-zero range

(* ------------------------ layer classification ------------------------- *)
\* Layers are identified by their name; the model keeps the part of the name
\* the substring tests of the source look at.
is_input_layer(name) == name = "input"

ShiftLayerNames ==
    {"input", "conv2d", "conv1d", "depthwise_conv2d", "dense",
     "softmax", "sigmoid", "tanh",
     "add", "subtract", "multiply",
     "activation(softmax)", "activation(sigmoid)", "activation(tanh)"}

is_shift_layer(name) == name \in ShiftLayerNames

ShiftFixedNames ==
    {"softmax", "sigmoid", "tanh",
     "activation(softmax)", "activation(sigmoid)", "activation(tanh)"}

is_shift_fixed(name) == name \in ShiftFixedNames

(* ----------------------------- graphs ---------------------------------- *)
\* A graph is model.layers: a sequence of layers in topological order, each
\* [name |-> its name, input |-> the positions of the layers it reads].
SingleNames == {"conv2d", "max_pooling2d", "sigmoid"}
MergeNames == {"add", "multiply", "concatenate"}

Count(g, S) == Cardinality({i \in 1..Len(g) : g[i].name \in S})

\* the layers that can follow g in model.layers
LayerChoices(g) ==
    {[name |-> k, input |-> <<p>>] :
        k \in {s \in SingleNames :
                 /\ is_shift_fixed(s) => Count(g, ShiftFixedNames) < MaxFixed
                 /\ ~is_shift_layer(s) =>
                        Count(g, SingleNames \ ShiftLayerNames) < MaxPass},
        p \in 1..Len(g)}
    \cup {[name |-> k, input |-> <<pq[1], pq[2]>>] :
             k \in {m \in MergeNames : Count(g, MergeNames) < MaxMerge},
             pq \in {x \in (1..Len(g)) \X (1..Len(g)) : x[1] < x[2]}}

\* only the last layer is an output: every other layer is read by a later one
HasSoleOutput(g) ==
    (1..(Len(g) - 1)) \subseteq
        UNION {{g[j].input[k] : k \in 1..Len(g[j].input)} : j \in 1..Len(g)}

(* --------------------------- calibration ------------------------------- *)
\* The layers whose output make_initial_shift_list evaluates on the samples.
HasFeatures(name) ==
    is_input_layer(name) \/ is_shift_layer(name) \/ name = "batch_normalization"

FeatureLayers(g) == {i \in 1..Len(g) : HasFeatures(g[i].name)}

\* get_int_bits of the observed range; obs[i] is that value for layer i
IntBitsRange == 0..MaxIntBits

\* the outputs of softmax, sigmoid and tanh lie within [-1, 1]: their
\* get_int_bits is 0, or negative when no output exceeds 1/2
FixedIntBits == {0 - 1, 0}

\* the observations a run can make on the layers of g
ObsChoices(g) ==
    {obs \in [FeatureLayers(g) -> IntBitsRange \cup FixedIntBits] :
        \A i \in FeatureLayers(g) :
            IF is_shift_fixed(g[i].name) THEN obs[i] \in FixedIntBits
            ELSE obs[i] \in IntBitsRange}

\* dec_bits_by_kld returns dec_bits + shift, shift the argmin of the loss
\* over the features; kld[i] is that shift for the features of layer i
KldShifts == 0..MaxKld
NoKld(g) == [i \in FeatureLayers(g) |-> 0]

\* the condition under which the layer loop calls dec_bits_by_kld
UsesKld(quantize_method, name) ==
    /\ quantize_method = "kld"
    /\ ~is_shift_fixed(name)
    /\ ~is_input_layer(name)
    /\ name # "dense"

\* the layer loop of make_initial_shift_list: acc.features is the int_bits
\* of the features the loop variable currently holds, acc.kld the shift
\* dec_bits_by_kld finds on them
RECURSIVE InitialShifts(_, _, _, _, _, _)
InitialShifts(g, obs, kld, quantize_method, i, acc) ==
    IF i > Len(g) THEN acc.shift_list
    ELSE LET features == IF HasFeatures(g[i].name) THEN obs[i] ELSE acc.features
             held_kld == IF HasFeatures(g[i].name) THEN kld[i] ELSE acc.kld
             dec_bits == DataBits - features
                         + (IF UsesKld(quantize_method, g[i].name) THEN held_kld ELSE 0)
             recorded == [acc.shift_list EXCEPT ![i] = dec_bits]
             withBn == IF g[i].name = "batch_normalization" /\ i > 1
                       THEN [recorded EXCEPT ![i - 1] = dec_bits]
                       ELSE recorded
         IN  InitialShifts(g, obs, kld, quantize_method, i + 1,
                 [shift_list |-> withBn, features |-> features, kld |-> held_kld])

make_initial_shift_list(g, obs, kld, quantize_method) ==
    InitialShifts(g, obs, kld, quantize_method, 1,
        [shift_list |-> [i \in 1..Len(g) |-> 0], features |-> 0, kld |-> 0])

(* ------------------------- reconciliation ------------------------------ *)
RECURSIVE MinOver(_, _, _, _)
MinOver(sl, ins, k, q) ==
    IF k > Len(ins) THEN q
    ELSE MinOver(sl, ins, k + 1, IF sl[ins[k]] < q THEN sl[ins[k]] ELSE q)

\* mutant of DetermineQmin: the first input's entry is taken as the target
DetermineQminFirst(sl, ins) == sl[ins[1]]

\* Qmin = shift_list[input[0]]; for inp in layer.input: Qmin = min(Qmin, ...)
DetermineQmin(sl, ins) == MinOver(sl, ins, 1, sl[ins[1]])

\* mutant of UpdateEach: the recursion into a pass-through layer's inputs
\* writes graph inputs as well
RECURSIVE UpdateEachNoSkip(_, _, _, _, _, _)
UpdateEachNoSkip(g, sl, ins, k, Qmin, skip_input) ==
    IF k > Len(ins) THEN sl
    ELSE LET p == ins[k]
             written == [sl EXCEPT ![p] = Qmin]
             pushed == IF ~is_shift_layer(g[p].name)
                       THEN UpdateEachNoSkip(g, written, g[p].input, 1, Qmin, TRUE)
                       ELSE written
         IN  UpdateEachNoSkip(g, pushed, ins, k + 1, Qmin, skip_input)

RECURSIVE UpdateEach(_, _, _, _, _, _)
\* the for loop of update_previous_layer_shift over init_layer.input[k..]
UpdateEach(g, sl, ins, k, Qmin, skip_input) ==
    IF k > Len(ins) THEN sl
    ELSE LET p == ins[k]
         IN  IF skip_input /\ is_input_layer(g[p].name)
             THEN UpdateEach(g, sl, ins, k + 1, Qmin, skip_input)
             ELSE LET written == [sl EXCEPT ![p] = Qmin]
                      pushed == IF ~is_shift_layer(g[p].name)
                                THEN UpdateEach(g, written, g[p].input, 1, Qmin, TRUE)
                                ELSE written
                  IN  UpdateEach(g, pushed, ins, k + 1, Qmin, skip_input)

update_previous_layer_shift(g, sl, init_layer, Qmin, skip_input) ==
    UpdateEach(g, sl, g[init_layer].input, 1, Qmin, skip_input)

\* isinstance(layer.input, list)
IsListInput(g, i) == Len(g[i].input) >= 2

\* one iteration of the loop over reversed(model.layers[1:])
SweepBody(g, sl, i) ==
    IF ~IsListInput(g, i) THEN sl
    ELSE LET Qmin == DetermineQmin(sl, g[i].input)
             pushed == update_previous_layer_shift(g, sl, i, Qmin, FALSE)
         IN  IF ~is_shift_layer(g[i].name) \/ Qmin < pushed[i]
             THEN [pushed EXCEPT ![i] = Qmin]
             ELSE pushed

RECURSIVE SweepFrom(_, _, _)
SweepFrom(g, sl, i) == IF i < 2 THEN sl ELSE SweepFrom(g, SweepBody(g, sl, i), i - 1)

\* the whole loop:  for layer in reversed(model.layers[1:])
BackwardSweep(g, sl) == SweepFrom(g, sl, Len(g))

(* ------------------------ tensors and get_int_bits --------------------- *)
\* A tensor value is the real number m * 2^e, of unit or of large magnitude
Exponents == {0, MaxExp}
Values == [m : (0 - MaxMant)..MaxMant, e : Exponents]

\* a weight tensor: the set of the values it holds
RECURSIVE ValueSets(_)
ValueSets(k) ==
    IF k = 0 THEN {{}}
    ELSE LET S == ValueSets(k - 1) IN S \cup {s \cup {v} : s \in S, v \in Values}

Tensors == ValueSets(MaxElems) \ {{}}

Abs(n) == IF n < 0 THEN 0 - n ELSE n

RECURSIVE Pow2(_)
Pow2(n) == IF n <= 0 THEN 1 ELSE 2 * Pow2(n - 1)

RECURSIVE CeilLog2From(_, _)
CeilLog2From(n, k) == IF Pow2(k) >= n THEN k ELSE CeilLog2From(n, k + 1)

\* ceil(log2(n)) of an integer n >= 1
CeilLog2(n) == CeilLog2From(n, 0)

\* ceil(log2(|v|)) of a non-zero value
ValueIntBits(v) == v.e + CeilLog2(Abs(v.m))

SetMax(S) == CHOOSE m \in S : \A x \in S : x <= m

\* int(ceil(log2(max(|min|, |max|, 1e-10)))) over the values of the tensor:
\* log2 and ceil are monotone, so it is the largest ceil(log2(|v|))
get_int_bits(t) ==
    LET nz == {v \in t : v.m # 0}
    IN  IF nz = {} THEN FloorIntBits ELSE SetMax({ValueIntBits(v) : v \in nz})

\* n / d rounded to the nearest integer, halves to the even one (numpy.round)
RoundHalfEven(n, d) ==
    LET fl == n \div d
        r == n - fl * d
    IN  IF 2 * r < d THEN fl
        ELSE IF 2 * r > d THEN fl + 1
        ELSE IF fl % 2 = 0 THEN fl ELSE fl + 1

\* np.round(v * 2 ** dec_bits)
Quantize(v, dec_bits) ==
    LET k == v.e + dec_bits
    IN  IF v.m = 0 THEN 0
        ELSE IF k >= 0 THEN v.m * Pow2(k)
        ELSE RoundHalfEven(v.m, Pow2(0 - k))

(* --------------------------- generate_weights -------------------------- *)
\* "conv" in layer.name
HasConv(name) == name \in {"conv2d", "conv1d", "depthwise_conv2d"}

\* layer.weights: the names of the variables of a layer
LayerWeightNames(name, use_bias) ==
    IF HasConv(name) \/ name = "dense"
    THEN (IF use_bias THEN <<"kernel", "bias">> ELSE <<"kernel">>)
    ELSE IF name = "batch_normalization"
    THEN <<"gamma", "beta", "moving_mean", "moving_variance">>
    ELSE <<>>

\* layer.outbound_nodes[0].outbound_layer: the first layer that reads layer i, 0 if none
FirstConsumer(g, i) ==
    LET readers == {j \in 1..Len(g) : \E k \in 1..Len(g[j].input) : g[j].input[k] = i}
    IN  IF readers = {} THEN 0 ELSE CHOOSE j \in readers : \A x \in readers : j <= x

\* the test before fuse_bn_to_conv
FusesBn(g, i) ==
    /\ HasConv(g[i].name)
    /\ FirstConsumer(g, i) # 0
    /\ g[FirstConsumer(g, i)].name = "batch_normalization"

\* the legality test of a batch_normalization layer
IllegalBn(g, i) ==
    /\ g[i].name = "batch_normalization"
    /\ ~HasConv(g[g[i].input[1]].name)

\* the shift_list of a run without calibration data
NoneTable == <<>>

\* the dec_bits generate_weights emits for a bias whose own range gives
\* dec_bits, for a layer with the given input encoding and kernel dec_bits
BiasDecBits(sl, is_shift, input_encoding, weight_dec_shift, dec_bits) ==
    LET bSameAsKernel == is_shift /\ input_encoding + weight_dec_shift - dec_bits < 0
    IN  IF (sl = NoneTable \/ bSameAsKernel) /\ dec_bits > weight_dec_shift
        THEN weight_dec_shift
        ELSE dec_bits

(* ------------------------------ state ---------------------------------- *)
VARIABLES
    layers,       \* model.layers
    quantize_method,  \* "max_min" or "kld"
    calibrated,   \* the table make_initial_shift_list returned
    shift_list,   \* the shift table (NoneTable: None)
    pc,           \* position in the running function
    idx,          \* the layer the reversed loop of the sweep is at
    stepLayer,    \* the multi-input layer the last iteration processed, 0 if none
    stepQmin,     \* its Qmin
    stepBefore,   \* the table before that iteration
    x_test,       \* generate_weights: calibration data was passed
    use_bias,     \* per layer: the layer was built with a bias
    li,           \* generate_weights: the layer of the layer loop
    vi,           \* generate_weights: the variable of the variable loop
    weight_dec_shift,
    fused,        \* the layers fuse_bn_to_conv has rewritten
    calibFused,   \* the layers that were rewritten when calibration evaluated the graph
    emit,         \* what the current iteration of the variable loop wrote
    layer_quantize_info,  \* the "data_width" recorded per layer and variable
    defines,      \* generate_model: the #define lines of the shift constants
    structs,      \* generate_model: the nnom_weight_t / nnom_bias_t structures
    ID,           \* generate_model: the next slot of layer[]
    LI,           \* generate_model: the slot of each layer seen so far
    layer_id,     \* generate_model: the slot of the layer last constructed
    stmts         \* generate_model: the "layer[k] = ..." statements written

sweepvars == <<idx, stepLayer, stepQmin, stepBefore>>
gwvars ==
    <<x_test, use_bias, li, vi, weight_dec_shift, fused, calibFused, emit,
      layer_quantize_info>>
gmvars == <<defines, structs, ID, LI, layer_id, stmts>>
vars == <<layers, quantize_method, calibrated, shift_list, pc, sweepvars, gwvars, gmvars>>

NoEmit ==
    [layer |-> 0, var |-> "", dec_bits |-> 0, ints |-> {},
     input_encoding |-> 0, weight_dec_shift |-> 0]

(* ----------------------- SweepSpec: the sweep -------------------------- *)
\* layers = some graph of at most n layers of the family that extends g
RECURSIVE GrowGraphTo(_, _)
GrowGraphTo(g, n) ==
    \/ /\ Len(g) >= 2
       /\ HasSoleOutput(g)
       /\ layers = g
    \/ /\ Len(g) < n
       /\ \E c \in LayerChoices(g) : GrowGraphTo(Append(g, c), n)

GrowGraph(g) == GrowGraphTo(g, MaxNodes)

\* the next multi-input layer at or before i in the reversed loop, 1 if none
RECURSIVE NextList(_, _)
NextList(g, i) ==
    IF i < 2 THEN 1 ELSE IF IsListInput(g, i) THEN i ELSE NextList(g, i - 1)

SweepInit ==
    /\ GrowGraph(<<[name |-> "input", input |-> <<>>]>>)
    /\ quantize_method = "max_min"
    /\ \E obs \in ObsChoices(layers) :
           calibrated = make_initial_shift_list(layers, obs, NoKld(layers), quantize_method)
    /\ shift_list = calibrated
    /\ pc = "sweep"
    /\ idx = Len(layers)
    /\ stepLayer = 0
    /\ stepQmin = 0
    /\ stepBefore = calibrated
    /\ x_test = TRUE
    /\ use_bias = [i \in 1..Len(layers) |-> TRUE]
    /\ li = 0
    /\ vi = 0
    /\ weight_dec_shift = 0
    /\ fused = {}
    /\ calibFused = {}
    /\ emit = NoEmit
    /\ layer_quantize_info = {}
    /\ defines = {}
    /\ structs = {}
    /\ ID = 0
    /\ LI = <<>>
    /\ layer_id = 0
    /\ stmts = <<>>

\* the loop reaches a multi-input layer (single-input layers are skipped by
\* `continue`): Qmin, update_previous_layer_shift, the layer's own entry
SweepMerge ==
    /\ pc = "sweep"
    /\ LET i == NextList(layers, idx)
       IN  /\ i >= 2
           /\ shift_list' = SweepBody(layers, shift_list, i)
           /\ stepLayer' = i
           /\ stepQmin' = DetermineQmin(shift_list, layers[i].input)
           /\ stepBefore' = shift_list
           /\ idx' = i - 1
    /\ UNCHANGED <<gmvars, layers, quantize_method, calibrated, pc, gwvars>>

\* no multi-input layer is left: return shift_list
SweepReturn ==
    /\ pc = "sweep"
    /\ NextList(layers, idx) < 2
    /\ pc' = "swept"
    /\ idx' = 1
    /\ UNCHANGED <<gmvars, layers, quantize_method, calibrated, shift_list, stepLayer, stepQmin, stepBefore, gwvars>>

SweepNext == SweepMerge \/ SweepReturn

SweepSpec == SweepInit /\ [][SweepNext]_vars

(* --------------- CalibSpec: make_initial_shift_list -------------------- *)
CalibInit ==
    /\ GrowGraphTo(<<[name |-> "input", input |-> <<>>]>>, MaxCalibNodes)
    /\ quantize_method \in {"max_min", "kld"}
    /\ calibrated = NoneTable
    /\ shift_list = NoneTable
    /\ pc = "calib_start"
    /\ idx = 0
    /\ stepLayer = 0
    /\ stepQmin = 0
    /\ stepBefore = NoneTable
    /\ x_test = TRUE
    /\ use_bias = [i \in 1..Len(layers) |-> TRUE]
    /\ li = 0
    /\ vi = 0
    /\ weight_dec_shift = 0
    /\ fused = {}
    /\ calibFused = {}
    /\ emit = NoEmit
    /\ layer_quantize_info = {}
    /\ defines = {}
    /\ structs = {}
    /\ ID = 0
    /\ LI = <<>>
    /\ layer_id = 0
    /\ stmts = <<>>

\* shift_list = make_initial_shift_list(model, x_test, quantize_method)
Calibrate ==
    /\ pc = "calib_start"
    /\ \E obs \in ObsChoices(layers) :
           \E kld \in [FeatureLayers(layers) -> KldShifts] :
               calibrated' = make_initial_shift_list(layers, obs, kld, quantize_method)
    /\ shift_list' = calibrated'
    /\ pc' = "calibrated"
    /\ UNCHANGED <<layers, quantize_method, sweepvars, gwvars, gmvars>>

CalibNext == Calibrate

CalibSpec == CalibInit /\ [][CalibNext]_vars

(* ------------------- WeightsSpec: generate_weights --------------------- *)
ChainNames == {"conv2d", "dense", "batch_normalization", "max_pooling2d"}

\* an input layer followed by a chain of layers with the given names
ChainsOver(names) ==
    UNION {{[i \in 1..n |-> IF i = 1 THEN [name |-> "input", input |-> <<>>]
                            ELSE [name |-> f[i], input |-> <<i - 1>>]] :
               f \in [2..n -> names]} : n \in 2..MaxLayers}

\* the models of WeightsSpec
Chains == ChainsOver(ChainNames)

\* int_bits of the activations of a run of generate_weights: as in SweepSpec,
\* or one bit more than a signed byte holds (samples such as raw 0..255 pixels)
ActIntBits == (0..1) \cup {DataBits + 1}

\* the observations a run of generate_weights can make on the layers of g
ActObsChoices(g) ==
    {obs \in [FeatureLayers(g) -> ActIntBits \cup FixedIntBits] :
        \A i \in FeatureLayers(g) :
            IF is_shift_fixed(g[i].name) THEN obs[i] \in FixedIntBits
            ELSE obs[i] \in ActIntBits}

LayerW(i) == LayerWeightNames(layers[i].name, use_bias[i])

\* the start of generate_weights on one of the given models
WeightsInitOver(models) ==
    /\ layers \in models
    /\ use_bias \in [1..Len(layers) -> BOOLEAN]
    /\ \A i \in 1..Len(layers) :
           ~(HasConv(layers[i].name) \/ layers[i].name = "dense") => use_bias[i]
    /\ x_test \in BOOLEAN
    /\ calibrated = NoneTable
    /\ shift_list = NoneTable
    /\ pc = "gw_start"
    /\ quantize_method = "max_min"
    /\ idx = 0
    /\ stepLayer = 0
    /\ stepQmin = 0
    /\ stepBefore = NoneTable
    /\ li = 1
    /\ vi = 0
    /\ weight_dec_shift = 0
    /\ fused = {}
    /\ calibFused = {}
    /\ emit = NoEmit
    /\ layer_quantize_info = {}
    /\ defines = {}
    /\ structs = {}
    /\ ID = 0
    /\ LI = <<>>
    /\ layer_id = 0
    /\ stmts = <<>>

WeightsInit == WeightsInitOver(Chains)

\* mutant of GWCalibrate: the convolutions that precede a normalization are
\* rewritten before the graph is evaluated on the samples
GWCalibrateFused ==
    /\ pc = "gw_start"
    /\ x_test
    /\ \E obs \in ActObsChoices(layers) :
           /\ calibrated' = make_initial_shift_list(layers, obs, NoKld(layers), quantize_method)
           /\ shift_list' = BackwardSweep(layers, calibrated')
    /\ fused' = {i \in 1..Len(layers) : FusesBn(layers, i) /\ Len(LayerW(i)) >= 2}
    /\ calibFused' = fused'
    /\ pc' = "gw_layer"
    /\ UNCHANGED <<gmvars, layers, quantize_method, sweepvars, layer_quantize_info, x_test, use_bias, li, vi, weight_dec_shift, emit>>

\* shift_list = layers_output_ranges(model, x_test, ...): the graph is
\* evaluated on the samples with the tensors as they are now
GWCalibrate ==
    /\ pc = "gw_start"
    /\ x_test
    /\ \E obs \in ActObsChoices(layers) :
           /\ calibrated' = make_initial_shift_list(layers, obs, NoKld(layers), quantize_method)
           /\ shift_list' = BackwardSweep(layers, calibrated')
    /\ calibFused' = fused
    /\ pc' = "gw_layer"
    /\ UNCHANGED <<gmvars, layers, quantize_method, sweepvars, layer_quantize_info, x_test, use_bias, li, vi, weight_dec_shift, fused, emit>>

\* x_test is None: shift_list = None
GWNoCalibration ==
    /\ pc = "gw_start"
    /\ ~x_test
    /\ pc' = "gw_layer"
    /\ UNCHANGED <<gmvars, layers, quantize_method, calibrated, shift_list, sweepvars, gwvars>>

\* if not layer.weights: continue
GWSkipLayer ==
    /\ pc = "gw_layer" /\ li <= Len(layers)
    /\ LayerW(li) = <<>>
    /\ li' = li + 1
    /\ UNCHANGED <<gmvars, layers, quantize_method, calibrated, shift_list, pc, sweepvars,
                   layer_quantize_info, x_test, use_bias, vi, weight_dec_shift, fused, calibFused, emit>>

\* raise Exception("Currently only support batch_normalization after conv")
GWRaiseBn ==
    /\ pc = "gw_layer" /\ li <= Len(layers)
    /\ LayerW(li) # <<>>
    /\ IllegalBn(layers, li)
    /\ pc' = "Exception"
    /\ UNCHANGED <<gmvars, layers, quantize_method, calibrated, shift_list, sweepvars, gwvars>>

\* fuse_bn_to_conv(layer), then the variable loop of the layer starts;
\* layer.get_weights()[1] raises IndexError for a convolution without bias
GWFuse ==
    /\ pc = "gw_layer" /\ li <= Len(layers)
    /\ LayerW(li) # <<>>
    /\ ~IllegalBn(layers, li)
    /\ FusesBn(layers, li)
    /\ IF Len(LayerW(li)) < 2
       THEN /\ pc' = "IndexError"
            /\ UNCHANGED <<vi, weight_dec_shift, fused>>
       ELSE /\ fused' = fused \cup {li}
            /\ weight_dec_shift' = 0
            /\ vi' = 1
            /\ pc' = "gw_var"
    /\ UNCHANGED <<gmvars, layers, quantize_method, calibrated, shift_list, sweepvars,
                   layer_quantize_info, x_test, use_bias, li, calibFused, emit>>

\* a layer with weights that is not fused: the variable loop starts
GWEnterLayer ==
    /\ pc = "gw_layer" /\ li <= Len(layers)
    /\ LayerW(li) # <<>>
    /\ ~IllegalBn(layers, li)
    /\ ~FusesBn(layers, li)
    /\ weight_dec_shift' = 0
    /\ vi' = 1
    /\ pc' = "gw_var"
    /\ UNCHANGED <<gmvars, layers, quantize_method, calibrated, shift_list, sweepvars,
                   layer_quantize_info, x_test, use_bias, li, fused, calibFused, emit>>

\* a variable that is neither a kernel nor a bias: continue
GWSkipVar ==
    /\ pc = "gw_var" /\ vi <= Len(LayerW(li))
    /\ LayerW(li)[vi] \notin {"kernel", "bias"}
    /\ vi' = vi + 1
    /\ UNCHANGED <<gmvars, layers, quantize_method, calibrated, shift_list, pc, sweepvars,
                   layer_quantize_info, x_test, use_bias, li, weight_dec_shift, fused, calibFused, emit>>

\* a kernel or a bias holding the values t: its dec_bits, the assertion on
\* shift_list, the bias fallback, the rounded values and the *_SHIFT define
GWQuantizeVar ==
    /\ pc = "gw_var" /\ vi <= Len(LayerW(li))
    /\ LayerW(li)[vi] \in {"kernel", "bias"}
    /\ \E t \in Tensors :
        LET is_kernel == LayerW(li)[vi] = "kernel"
            is_shift == is_shift_layer(layers[li].name)
            own_bits == DataBits - get_int_bits(t)
        IN  IF is_shift /\ shift_list = NoneTable
            THEN /\ pc' = "AssertionError"
                 /\ UNCHANGED <<vi, weight_dec_shift, emit, layer_quantize_info>>
            ELSE LET input_encoding == IF is_shift THEN shift_list[layers[li].input[1]] ELSE 0
                     dec_bits == IF is_kernel THEN own_bits
                                 ELSE BiasDecBits(shift_list, is_shift, input_encoding,
                                                  weight_dec_shift, own_bits)
                     wds == IF is_kernel /\ (is_shift \/ shift_list = NoneTable)
                            THEN own_bits ELSE weight_dec_shift
                 IN  /\ weight_dec_shift' = wds
                     /\ emit' = [layer |-> li, var |-> LayerW(li)[vi],
                                 dec_bits |-> dec_bits,
                                 ints |-> {Quantize(v, dec_bits) : v \in t},
                                 input_encoding |-> input_encoding,
                                 weight_dec_shift |-> wds]
                     /\ layer_quantize_info' = layer_quantize_info \cup
                            {[layer |-> li, var |-> LayerW(li)[vi],
                              data_width |-> dec_bits]}
                     /\ vi' = vi + 1
                     /\ pc' = "gw_var"
    /\ UNCHANGED <<gmvars, layers, quantize_method, calibrated, shift_list, sweepvars,
                   x_test, use_bias, li, fused, calibFused>>

\* the variable loop of the layer is over
GWNextLayer ==
    /\ pc = "gw_var" /\ vi > Len(LayerW(li))
    /\ li' = li + 1
    /\ vi' = 0
    /\ emit' = NoEmit
    /\ pc' = "gw_layer"
    /\ UNCHANGED <<gmvars, layers, quantize_method, calibrated, shift_list, sweepvars,
                   layer_quantize_info, x_test, use_bias, weight_dec_shift, fused, calibFused>>

\* return f, layer_weights, layer_quantize_info, shift_list
GWReturn ==
    /\ pc = "gw_layer" /\ li > Len(layers)
    /\ pc' = "returned"
    /\ UNCHANGED <<gmvars, layers, quantize_method, calibrated, shift_list, sweepvars, gwvars>>

WeightsNext ==
    \/ GWCalibrate \/ GWNoCalibration
    \/ GWSkipLayer \/ GWRaiseBn \/ GWFuse \/ GWEnterLayer
    \/ GWSkipVar \/ GWQuantizeVar \/ GWNextLayer
    \/ GWReturn

WeightsSpec == WeightsInit /\ [][WeightsNext]_vars

(* --------------------- ModelSpec: generate_model ----------------------- *)
\* hwc format: lambda, dropout, batch_normalization and flatten are skipped
is_skipable_layer(name) ==
    name \in {"lambda", "dropout", "batch_normalization", "flatten"}

\* the "data_width" generate_weights recorded for a variable of a layer
DataWidth(i, var) ==
    (CHOOSE q \in layer_quantize_info : q.layer = i /\ q.var = var).data_width

\* the lines the define loop writes for layer i
LayerDefines(g, sl, i) ==
    LET inp == g[i].input[1]
    IN  IF ~is_shift_layer(g[i].name) THEN {}
        ELSE IF LayerW(i) = <<"kernel", "bias">>
        THEN {[layer |-> i, macro |-> "OUTPUT_RSHIFT", guarded |-> TRUE,
               value |-> sl[inp] + DataWidth(i, "kernel") - sl[i]],
              [layer |-> i, macro |-> "BIAS_LSHIFT", guarded |-> TRUE,
               value |-> sl[inp] + DataWidth(i, "kernel") - DataWidth(i, "bias")]}
        ELSE IF g[i].name \in {"add", "subtract"}
        THEN {[layer |-> i, macro |-> "OUTPUT_RSHIFT", guarded |-> TRUE,
               value |-> sl[inp] - sl[i]]}
        ELSE IF g[i].name = "multiply"
        THEN {[layer |-> i, macro |-> "OUTPUT_RSHIFT", guarded |-> TRUE,
               value |-> sl[inp] * 2 - sl[i]]}
        ELSE {}

\* the structures the weights loop writes for layer i
LayerStructs(g, i) ==
    IF is_input_layer(g[i].name) THEN {}
    ELSE {[layer |-> i, var |-> "kernel", shift |-> "OUTPUT_RSHIFT"] :
              k \in {k \in 1..Len(LayerW(i)) : LayerW(i)[k] = "kernel"}}
         \cup
         {[layer |-> i, var |-> "bias", shift |-> "BIAS_LSHIFT"] :
              k \in {k \in 1..Len(LayerW(i)) : LayerW(i)[k] = "bias"}}

\* generate_weights has returned: #define <layer>_OUTPUT_SHIFT for each layer;
\* shift_list[iname] raises TypeError when shift_list is None
GMOutputShifts ==
    /\ pc = "returned"
    /\ IF shift_list = NoneTable
       THEN /\ pc' = "TypeError"
            /\ UNCHANGED <<defines, li>>
       ELSE /\ defines' = {[layer |-> i, macro |-> "OUTPUT_SHIFT", guarded |-> FALSE,
                            value |-> shift_list[i]] : i \in 1..Len(layers)}
            /\ li' = 1
            /\ pc' = "gm_define"
    /\ UNCHANGED <<layers, quantize_method, calibrated, shift_list, sweepvars, x_test, use_bias, vi,
                   weight_dec_shift, fused, calibFused, emit, layer_quantize_info,
                   structs, ID, LI, layer_id, stmts>>

\* one iteration of the loop "bias shift and output shift for each layer"
GMDefineLayer ==
    /\ pc = "gm_define"
    /\ defines' = defines \cup LayerDefines(layers, shift_list, li)
    /\ IF li < Len(layers)
       THEN /\ li' = li + 1
            /\ pc' = "gm_define"
       ELSE /\ li' = 1
            /\ pc' = "gm_struct"
    /\ UNCHANGED <<layers, quantize_method, calibrated, shift_list, sweepvars, x_test, use_bias, vi,
                   weight_dec_shift, fused, calibFused, emit, layer_quantize_info,
                   structs, ID, LI, layer_id, stmts>>

\* one iteration of the loop "weights for each layer": the slot of the layer,
\* then its weight and bias structures
GMStructLayer ==
    /\ pc = "gm_struct"
    /\ IF is_skipable_layer(layers[li].name)
       THEN /\ LI' = Append(LI, LI[layers[li].input[1]])
            /\ ID' = ID
       ELSE /\ LI' = Append(LI, ID)
            /\ ID' = ID + 1
    /\ structs' = structs \cup LayerStructs(layers, li)
    /\ IF li < Len(layers)
       THEN /\ li' = li + 1
            /\ pc' = "gm_struct"
       ELSE /\ li' = 1
            /\ pc' = "gm_model"
    /\ UNCHANGED <<layers, quantize_method, calibrated, shift_list, sweepvars, x_test, use_bias, vi,
                   weight_dec_shift, fused, calibFused, emit, layer_quantize_info,
                   defines, layer_id, stmts>>

\* cfg.get("activation") of an Activation layer, "" for any other layer
Activation(name) ==
    CASE name = "activation(linear)" -> "linear"
      [] name = "activation(relu)" -> "relu"
      [] name = "activation(softmax)" -> "softmax"
      [] name = "activation(sigmoid)" -> "sigmoid"
      [] name = "activation(tanh)" -> "tanh"
      [] OTHER -> ""

\* the layer reaches add_activation
IsActivationLayer(name) == Activation(name) # "" \/ name = "re_lu"

\* the layers for which a branch of the construction loop writes a statement
WritesStatement(name) ==
    \/ is_input_layer(name)
    \/ HasConv(name)
    \/ IsActivationLayer(name) /\ Activation(name) # "linear"
    \/ name \in {"max_pooling2d", "up_sampling2d", "zero_padding2d", "cropping2d"}
    \/ name \in {"concatenate", "add", "subtract", "multiply"}
    \/ name = "dense"

\* the layers a branch of the construction loop handles without raising
IsSupportedLayer(name) == WritesStatement(name) \/ name = "activation(linear)"

\* the slots layer[..] the statement of layer i passes as predecessors
UsedSlots(g, i) == {LI[g[i].input[k]] : k \in 1..Len(g[i].input)}

\* one iteration of the layer construction loop
GMConstructLayer ==
    /\ pc = "gm_model"
    /\ LET name == layers[li].name
       IN  IF is_skipable_layer(name)
           THEN /\ UNCHANGED <<layer_id, stmts>>
                /\ IF li < Len(layers)
                   THEN li' = li + 1 /\ pc' = "gm_model"
                   ELSE li' = li /\ pc' = "gm_output"
           ELSE /\ layer_id' = LI[li]
                /\ IF ~IsSupportedLayer(name)
                   THEN /\ pc' = "Exception"
                        /\ UNCHANGED <<li, stmts>>
                   ELSE /\ stmts' = IF WritesStatement(name)
                                    THEN Append(stmts, [slot |-> LI[li],
                                                        uses |-> UsedSlots(layers, li)])
                                    ELSE stmts
                        /\ IF li < Len(layers)
                           THEN li' = li + 1 /\ pc' = "gm_model"
                           ELSE li' = li /\ pc' = "gm_output"
    /\ UNCHANGED <<layers, quantize_method, calibrated, shift_list, sweepvars, x_test, use_bias, vi,
                   weight_dec_shift, fused, calibFused, emit, layer_quantize_info,
                   defines, structs, ID, LI>>

\* layer[layer_id + 1] = model.hook(Output(...), layer[layer_id])
GMOutput ==
    /\ pc = "gm_output"
    /\ stmts' = Append(stmts, [slot |-> layer_id + 1, uses |-> {layer_id}])
    /\ pc' = "gm_done"
    /\ UNCHANGED <<layers, quantize_method, calibrated, shift_list, sweepvars, x_test, use_bias, li, vi,
                   weight_dec_shift, fused, calibFused, emit, layer_quantize_info,
                   defines, structs, ID, LI, layer_id>>

ModelNext ==
    \/ WeightsNext
    \/ GMOutputShifts \/ GMDefineLayer \/ GMStructLayer
    \/ GMConstructLayer \/ GMOutput

\* the models of ModelSpec: chains that also hold skipped layers and
\* Activation layers
ModelChainNames ==
    ChainNames \cup {"dropout", "activation(linear)", "activation(relu)",
                     "activation(sigmoid)", "activation(softmax)"}

ModelInit == WeightsInitOver(ChainsOver(ModelChainNames))

ModelSpec == ModelInit /\ [][ModelNext]_vars

(* ------------------- properties of the calibration -------------------- *)
\* the layers that copy the format of their single input
PassThroughLayers ==
    {i \in 1..Len(layers) :
        /\ ~is_shift_layer(layers[i].name)
        /\ layers[i].name # "batch_normalization"
        /\ Len(layers[i].input) = 1}

\* C12: in the table make_initial_shift_list returns, the entry of every
\* layer that is not format-carrying equals the entry of its graph
\* predecessor, for max_min and for kld.
C12_PassThroughEqualsPredecessor ==
    pc = "calibrated" =>
        \A i \in PassThroughLayers : calibrated[i] = calibrated[layers[i].input[1]]

\* C13: after calibration the entry of every softmax, sigmoid or tanh layer
\* is 7, whatever range was observed on it.
C13_FixedEntryIsSeven ==
    pc = "calibrated" =>
        \A i \in 1..Len(layers) :
            is_shift_fixed(layers[i].name) => calibrated[i] = DataBits

(* ------------------ properties of the reconciliation ------------------- *)
DirectPreds(i) == {layers[i].input[k] : k \in 1..Len(layers[i].input)}

InputLayers == {i \in 1..Len(layers) : is_input_layer(layers[i].name)}

ElementwiseMerges ==
    {i \in 1..Len(layers) : layers[i].name \in {"add", "subtract", "multiply"}}

\* C1: after the sweep all direct predecessors of every add / subtract /
\* multiply layer have the same entry in the shift table.
C1_MergeInputsEqual ==
    pc = "swept" =>
        \A i \in ElementwiseMerges :
            \A p, q \in DirectPreds(i) : shift_list[p] = shift_list[q]

\* C2: the sweep leaves the entry of every format-fixed layer as calibrated.
C2_FixedUnchanged ==
    pc = "swept" =>
        \A i \in 1..Len(layers) :
            is_shift_fixed(layers[i].name) => shift_list[i] = calibrated[i]

\* C3: the sweep applied to the table it returned changes no entry.
C3_SweepIdempotent ==
    pc = "swept" => BackwardSweep(layers, shift_list) = shift_list

\* C7 as stated: the sweep never writes the entry of a graph input.
C7_InputNeverWritten ==
    \A i \in InputLayers : shift_list[i] = calibrated[i]

\* C7 amended: an iteration of the sweep writes the entry of a graph input
\* only when the input is a direct predecessor of the multi-input layer it
\* processes, and then sets it to Qmin; an input the iteration reaches only
\* through pass-through layers keeps its entry.
C7_InputWrittenOnlyAsDirectPred ==
    stepLayer # 0 =>
        \A i \in InputLayers :
            IF i \in DirectPreds(stepLayer)
            THEN shift_list[i] = stepQmin
            ELSE shift_list[i] = stepBefore[i]

\* an iteration lowered a pass-through layer that reads the graph input and
\* is a direct predecessor of the processed layer, the input is not
C7_Witness ==
    /\ stepLayer # 0
    /\ \E p \in DirectPreds(stepLayer) :
           /\ ~is_shift_layer(layers[p].name)
           /\ \E i \in InputLayers \ DirectPreds(stepLayer) :
                  /\ i \in DirectPreds(p)
                  /\ shift_list[p] < stepBefore[p]
                  /\ shift_list[p] < shift_list[i]

SetMin(S) == CHOOSE m \in S : \A x \in S : m <= x

\* C8: the target of an iteration is the minimum of the entries the direct
\* predecessors had before it, and after it every direct predecessor has it.
C8_TargetIsMinAndApplied ==
    stepLayer # 0 =>
        LET m == SetMin({stepBefore[p] : p \in DirectPreds(stepLayer)})
        IN  /\ stepQmin = m
            /\ \A p \in DirectPreds(stepLayer) : shift_list[p] = m

\* an add whose branches were at 7 and 5 has just been processed: both are at 5
C8_Witness ==
    /\ stepLayer # 0
    /\ layers[stepLayer].name = "add"
    /\ {stepBefore[p] : p \in DirectPreds(stepLayer)} = {5, 7}
    /\ \A p \in DirectPreds(stepLayer) : shift_list[p] = 5

\* C16: every write of the sweep is non-increasing: after each iteration no
\* entry is above the value it had before the iteration, so no entry ends
\* above its calibrated value.
C16_WritesNonIncreasing ==
    /\ stepLayer # 0 =>
           \A i \in 1..Len(layers) : shift_list[i] <= stepBefore[i]
    /\ \A i \in 1..Len(layers) : shift_list[i] <= calibrated[i]

\* the entries update_previous_layer_shift writes from the inputs ins[k..]
RECURSIVE WrittenBy(_, _, _, _)
WrittenBy(g, ins, k, skip_input) ==
    IF k > Len(ins) THEN {}
    ELSE LET p == ins[k]
             rest == WrittenBy(g, ins, k + 1, skip_input)
         IN  IF skip_input /\ is_input_layer(g[p].name) THEN rest
             ELSE IF ~is_shift_layer(g[p].name)
             THEN {p} \cup WrittenBy(g, g[p].input, 1, TRUE) \cup rest
             ELSE {p} \cup rest

\* the ancestors the iteration of multi-input layer i reaches
Reached(i) == WrittenBy(layers, layers[i].input, 1, FALSE)

\* the table at the start of the iteration of layer i
RECURSIVE TableBefore(_, _, _)
TableBefore(g, sl, i) ==
    IF i >= Len(g) THEN sl
    ELSE SweepBody(g, TableBefore(g, sl, i + 1), i + 1)

\* the target (Qmin) of the iteration of multi-input layer i
Target(i) == DetermineQmin(TableBefore(layers, calibrated, i), layers[i].input)

MultiInputLayers == {i \in 2..Len(layers) : IsListInput(layers, i)}

\* C17: when two multi-input layers reach the same ancestor with different
\* targets, the final entry of the ancestor is the target of the one
\* processed later, which is the one earlier in model.layers.
C17_LaterMergeWins ==
    pc = "swept" =>
        \A m1, m2 \in MultiInputLayers :
            (m1 < m2 /\ Target(m1) # Target(m2)) =>
                \A a \in Reached(m1) \cap Reached(m2) :
                    (\A m \in MultiInputLayers : a \in Reached(m) => m >= m1) =>
                        shift_list[a] = Target(m1)

\* C18: after the sweep, for every add or subtract layer the entry of its
\* first input minus its own entry (the <layer>_OUTPUT_RSHIFT constant of
\* generate_model) is not negative.
C18_AddRshiftNonNegative ==
    pc = "swept" =>
        \A i \in 1..Len(layers) :
            layers[i].name \in {"add", "subtract"} =>
                shift_list[layers[i].input[1]] - shift_list[i] >= 0

\* the pass-through layers that lie on a path into a multi-input layer
PassThroughBeforeMerge ==
    {i \in PassThroughLayers : \E m \in MultiInputLayers : i \in Reached(m)}

\* C20: after the sweep every pass-through layer that lies between a
\* format-carrying or multi-input layer and a multi-input layer has the same
\* entry as its graph predecessor.
C20_PassThroughFollowsPredecessor ==
    pc = "swept" =>
        \A i \in PassThroughBeforeMerge :
            shift_list[i] = shift_list[layers[i].input[1]]

(* -------------------- properties of generate_weights ------------------- *)
ConvBeforeBn == {i \in 1..Len(layers) : FusesBn(layers, i)}

C6_EmittedInInt8 ==
    \A x \in emit.ints : (0 - 128) <= x /\ x <= 127

\* C10: no negative dec_bits is written as a *_SHIFT constant.
C10_NoNegativeShiftEmitted ==
    emit.layer # 0 => emit.dec_bits >= 0

\* the positions at which generate_weights has stopped with an error
GWErrors == {"Exception", "IndexError", "AssertionError"}

\* C11: whenever a rounded kernel or bias value lies outside [-128, 127],
\* generate_weights reports it (the run stops with an error) instead of
\* writing the value to the emitted array.
C11_OutOfRangeReported ==
    (\E x \in emit.ints : x < (0 - 128) \/ x > 127) => pc \in GWErrors

\* C14: without calibration data the run of generate_weights completes for
\* every weighted layer, and the dec_bits written for a bias never exceeds
\* the dec_bits of the layer's kernel.
C14_NoCalibrationCompletes ==
    ~x_test =>
        /\ pc # "AssertionError"
        /\ emit.var = "bias" => emit.dec_bits <= emit.weight_dec_shift

\* the batch_normalization layers whose predecessor is a weighted layer
\* (a convolution or a dense layer)
BnAfterWeighted ==
    {i \in 1..Len(layers) :
        /\ layers[i].name = "batch_normalization"
        /\ LET p == layers[layers[i].input[1]].name
           IN  HasConv(p) \/ p = "dense"}

\* C15: generate_weights aborts at a batch_normalization layer exactly when
\* its predecessor is not a weighted layer; after a convolution or a dense
\* layer it does not raise, and that layer's kernel and bias are rewritten.
C15_BnAbortsIffNotWeighted ==
    /\ pc = "Exception" => li \notin BnAfterWeighted
    /\ pc # "IndexError"
    /\ \A i \in 1..Len(layers) :
           (layers[i].name = "batch_normalization" /\ li > i) =>
               /\ i \in BnAfterWeighted
               /\ layers[i].input[1] \in fused

(* -------------------- properties of generate_model --------------------- *)
\* the value the shift constant of a structure has to have
ExpectedShift(s) ==
    LET inp == layers[s.layer].input[1]
        in_k == shift_list[inp] + DataWidth(s.layer, "kernel")
    IN  IF s.shift = "OUTPUT_RSHIFT"
        THEN in_k - shift_list[s.layer]
        ELSE in_k - DataWidth(s.layer, "bias")

\* C9: the shift constant every emitted weight or bias structure refers to is
\* defined, with the value input + kernel - output (right shift) or
\* input + kernel - bias (bias left shift), together with a guard.
C9_StructShiftsDefined ==
    \A s \in structs :
        \E d \in defines :
            /\ d.layer = s.layer
            /\ d.macro = s.shift
            /\ d.guarded
            /\ d.value = ExpectedShift(s)

\* C19: every slot a statement of the construction sequence passes as a
\* predecessor (layer[k] of hook / active / mergex, and the source of the
\* Output layer) has been assigned by an earlier statement of the sequence.
C19_UsedSlotsAssigned ==
    \A k \in 1..Len(stmts) :
        \A u \in stmts[k].uses :
            \E j \in 1..(k - 1) : stmts[j].slot = u

====
